---------------------------- MODULE Spec2Model ----------------------------
(***************************************************************************)
(* A model of sidechainnet's build-parameter optimizer                     *)
(* (research/build_parameter_optim/optimize_build_params.py) and of the    *)
(* batch energy loss (research/openfold/openfold_loss.py).                 *)
(*                                                                         *)
(* Abstractions, all of values and none of control flow:                   *)
(*  - a tensor is one integer.  Bond lengths are in abstract length        *)
(*    quanta; angles are in quarter turns (1 = pi/2), so that sin, cos and *)
(*    atan2 are exact on the integers;                                     *)
(*  - a loss is an integer number of quanta of 0.5e-4, so epsilon = 1e-4   *)
(*    is 2 quanta and "lower, but by no more than epsilon" is the          *)
(*    difference 1 or 2;                                                   *)
(*  - the energy oracle and the torch optimizers are external: the oracle  *)
(*    answers from a script chosen by the environment (its last value is   *)
(*    held for ever: a plateau), an optimizer step moves every registered  *)
(*    tensor by one quantum.                                               *)
(***************************************************************************)
EXTENDS Integers, Sequences, FiniteSets, TLC

\* ------------------------------------------------------------------ bounds
MaxScript == 2          \* the oracle's script has 1..MaxScript values
MaxShortSteps == 2      \* short step budgets are 0..MaxShortSteps
ExtraSteps == 3         \* the long step budget is patience + ExtraSteps
MaxClosure == 2         \* closure invocations per LBFGS step are 1..MaxClosure

\* ------------------------------------------------------- program constants
patience == 20          \* optimize(): patience = 20
epsilon == 2            \* optimize(): epsilon = 1e-4, in loss quanta of 0.5e-4

Anchors == <<"N", "CA", "C">>
AllKeys == <<"bond_lengths", "thetas", "chis">>
FirstOrder == {"SGD", "adam"}
Strategies == {"LBFGS"} \cup FirstOrder

NoneV == <<>>
Some(v) == <<v>>
IsNone(x) == x = <<>>
Val(x) == x[1]

\* ------------------------------------------------------- angle arithmetic
\* torch.sin / torch.cos / torch.atan2 on quarter turns.
Sin(a) == CASE a % 4 = 0 -> 0 [] a % 4 = 1 -> 1 [] a % 4 = 2 -> 0 [] a % 4 = 3 -> -1
Cos(a) == CASE a % 4 = 0 -> 1 [] a % 4 = 1 -> 0 [] a % 4 = 2 -> -1 [] a % 4 = 3 -> 0
\* atan2 answers in (-pi, pi]: -1, 0, 1 or 2 quarter turns.
Atan2(s, c) ==
    CASE s = 0 /\ c = 1 -> 0
      [] s = 1 /\ c = 0 -> 1
      [] s = 0 /\ c = -1 -> 2
      [] s = -1 /\ c = 0 -> -1
      [] s = 0 /\ c = 0 -> 0

to_sin_cos(angles) == <<Sin(angles), Cos(angles)>>

\* ------------------------------------------------------ the parameter store
\* A cell of build_params[root_atom][field].  ref > 0: the cell holds the very
\* tensor object self.params[ref] (an in-place optimizer step shows through
\* it); ref = 0: the cell holds a tensor of its own, of value val.
Own(v) == [present |-> TRUE, ref |-> 0, val |-> v]
Alias(n) == [present |-> TRUE, ref |-> n, val |-> 0]
Absent == [present |-> FALSE, ref |-> 0, val |-> 0]
Deref(cell, ps) == IF cell.ref > 0 THEN ps[cell.ref] ELSE cell.val

AnchorIdx(root_atom) == CHOOSE n \in 1..3 : Anchors[n] = root_atom
AnchorSet == {Anchors[n] : n \in 1..3}

\* get_all_atom_build_params(SC_HBUILD_INFO, BB_BUILD_INFO): the default table,
\* an input.  Two tables, every (anchor, field) entry distinguishable.
Tables == {0, 1}
DefaultTable(t) ==
    [root_atom \in AnchorSet |->
        [bond_lengths |-> Own(10 * AnchorIdx(root_atom) + 5 * t),
         sthetas |-> Own(Sin(AnchorIdx(root_atom) + t)),
         cthetas |-> Own(Cos(AnchorIdx(root_atom) + t)),
         schis |-> Own(Sin(t - AnchorIdx(root_atom))),
         cchis |-> Own(Cos(t - AnchorIdx(root_atom))),
         thetas |-> Absent,
         chis |-> Absent]]

\* __init__, lines 33-39: keys_to_optimize from the three flags.
KeysFrom(opt_bond_lengths, opt_thetas, opt_chis) ==
    (IF opt_bond_lengths THEN <<"bond_lengths">> ELSE <<>>)
    \o (IF opt_thetas THEN <<"thetas">> ELSE <<>>)
    \o (IF opt_chis THEN <<"chis">> ELSE <<>>)

KeySet(keys) == {keys[n] : n \in 1..Len(keys)}

\* __init__, lines 45-53: the raw angles, from the stored sin/cos pairs.
WithRawAngles(bp, keys) ==
    [root_atom \in AnchorSet |->
        [bp[root_atom] EXCEPT
            !.thetas = IF "thetas" \in KeySet(keys)
                       THEN Own(Atan2(bp[root_atom].sthetas.val, bp[root_atom].cthetas.val))
                       ELSE @,
            !.chis = IF "chis" \in KeySet(keys)
                     THEN Own(Atan2(bp[root_atom].schis.val, bp[root_atom].cchis.val))
                     ELSE @]]


\* create_param_list_from_build_params, lines 72-79: the loop over root_atom
\* (outer) and param_key (inner), appending build_params[root_atom][param_key].
\* The list holds the store's own tensor objects, so an entry is named by the
\* (root_atom, param_key) it was taken from.
RECURSIVE ExtractLoop(_, _, _, _)
ExtractLoop(keys, r, k, acc) ==
    IF r > Len(Anchors) THEN acc
    ELSE IF k > Len(keys) THEN ExtractLoop(keys, r + 1, 1, acc)
    ELSE ExtractLoop(keys, r, k + 1, Append(acc, <<Anchors[r], keys[k]>>))

create_param_list_from_build_params(keys) == ExtractLoop(keys, 1, 1, <<>>)

\* The values of the extracted tensors.
ParamValues(bp, ps, keys) ==
    LET slots == create_param_list_from_build_params(keys)
    IN  [n \in 1..Len(slots) |-> Deref(bp[slots[n][1]][slots[n][2]], ps)]

\* The list made of copies: no store cell is one of its tensors.
ShareWithParams_Copied(bp, keys) == bp

\* After extraction self.params[n] and the store cell it came from are one
\* object (line 78 appends the tensor itself, not a copy).
ShareWithParams(bp, keys) ==
    LET slots == create_param_list_from_build_params(keys)
    IN  [root_atom \in AnchorSet |->
            [field \in DOMAIN bp[root_atom] |->
                IF \E n \in 1..Len(slots) : slots[n] = <<root_atom, field>>
                THEN Alias(CHOOSE n \in 1..Len(slots) : slots[n] = <<root_atom, field>>)
                ELSE bp[root_atom][field]]]

\* The chis branch pasted from the thetas branch, its field names left as they were.
ScatterWrite_Pasted(group, param_key, optimized, i, live) ==
    IF param_key = "thetas" \/ param_key = "chis"
    THEN [group EXCEPT !.sthetas = Own(Sin(optimized[i])),
                       !.cthetas = Own(Cos(optimized[i]))]
    ELSE [group EXCEPT ![param_key] = IF live THEN Alias(i) ELSE Own(optimized[i])]

\* The snapshot stored as the live list is: the objects, not their values.
ScatterWrite_AlwaysLive(group, param_key, optimized, i, live) ==
    IF param_key = "thetas"
    THEN [group EXCEPT !.sthetas = Own(to_sin_cos(optimized[i])[1]),
                       !.cthetas = Own(to_sin_cos(optimized[i])[2])]
    ELSE IF param_key = "chis"
    THEN [group EXCEPT !.schis = Own(to_sin_cos(optimized[i])[1]),
                       !.cchis = Own(to_sin_cos(optimized[i])[2])]
    ELSE [group EXCEPT ![param_key] = Alias(i)]

\* One assignment of update_complete_build_params_with_optimized_params,
\* lines 86-93.  live: optimized_params is self.params itself (the object is
\* stored); otherwise it is a deep copy (its value is stored).
ScatterWrite(group, param_key, optimized, i, live) ==
    IF param_key = "thetas"
    THEN [group EXCEPT !.sthetas = Own(to_sin_cos(optimized[i])[1]),
                       !.cthetas = Own(to_sin_cos(optimized[i])[2])]
    ELSE IF param_key = "chis"
    THEN [group EXCEPT !.schis = Own(to_sin_cos(optimized[i])[1]),
                       !.cchis = Own(to_sin_cos(optimized[i])[2])]
    ELSE [group EXCEPT ![param_key] = IF live THEN Alias(i) ELSE Own(optimized[i])]

\* update_complete_build_params_with_optimized_params, lines 81-94: the same two
\* loops, with the running index i (1-based here).
RECURSIVE ScatterLoop(_, _, _, _, _, _, _)
ScatterLoop(bp, optimized, live, keys, r, k, i) ==
    IF r > Len(Anchors) THEN bp
    ELSE IF k > Len(keys) THEN ScatterLoop(bp, optimized, live, keys, r + 1, 1, i)
    ELSE ScatterLoop(
            [bp EXCEPT ![Anchors[r]] = ScatterWrite(@, keys[k], optimized, i, live)],
            optimized, live, keys, r, k + 1, i + 1)


\* The scatter left out of an iteration: the store keeps what it held.
update_Skipped(bp, optimized, live, keys) == bp

\* The two loops exchanged: param_key outside, root_atom inside.
RECURSIVE ScatterLoop_KeyMajor(_, _, _, _, _, _, _)
ScatterLoop_KeyMajor(bp, optimized, live, keys, r, k, i) ==
    IF k > Len(keys) THEN bp
    ELSE IF r > Len(Anchors) THEN ScatterLoop_KeyMajor(bp, optimized, live, keys, 1, k + 1, i)
    ELSE ScatterLoop_KeyMajor(
            [bp EXCEPT ![Anchors[r]] =
                IF keys[k] = "thetas"
                THEN [@ EXCEPT !.sthetas = Own(Sin(optimized[i])),
                               !.cthetas = Own(Cos(optimized[i]))]
                ELSE IF keys[k] = "chis"
                THEN [@ EXCEPT !.schis = Own(Sin(optimized[i])),
                               !.cchis = Own(Cos(optimized[i]))]
                ELSE [@ EXCEPT ![keys[k]] = IF live THEN Alias(i) ELSE Own(optimized[i])]],
            optimized, live, keys, r + 1, k, i + 1)

update_KeyMajor(bp, optimized, live, keys) ==
    ScatterLoop_KeyMajor(bp, optimized, live, keys, 1, 1, 1)

update_complete_build_params_with_optimized_params(bp, optimized, live, keys) ==
    ScatterLoop(bp, optimized, live, keys, 1, 1, 1)

\* protein.fastbuild(build_params=..., add_hydrogens=True, inplace=True): the
\* builder is external and deterministic; the coordinates it writes are named by
\* the parameter values it was given.
BuiltFields == {"bond_lengths", "sthetas", "cthetas", "schis", "cchis"}
fastbuild(bp, ps) ==
    [root_atom \in AnchorSet |-> [field \in BuiltFields |-> Deref(bp[root_atom][field], ps)]]

\* The protein: its coordinates, the loss its energy was last evaluated to, and
\* how many times _initialize_openmm has set up its OpenMM context.
NewProtein == [hcoords |-> <<>>, last_loss |-> NoneV, openmm_inits |-> 0]

\* prepare_protein, lines 62-70: the first build, then _initialize_openmm.
prepare_protein(p, bp) ==
    [p EXCEPT !.hcoords = fastbuild(bp, <<>>),
              !.openmm_inits = @ + 1]

\* The loop's rebuild done by way of prepare_protein.
Rebuild_Prepared(p, bp, ps) ==
    [p EXCEPT !.hcoords = fastbuild(bp, ps),
              !.openmm_inits = @ + 1]

\* lines 122-124 and 163-165: p.fastbuild(..., inplace=True) writes the
\* coordinates and nothing else.
Rebuild(p, bp, ps) == [p EXCEPT !.hcoords = fastbuild(bp, ps)]

\* copy.deepcopy of a parameter list: new tensors of the same values.
deepcopy(ps) == [n \in 1..Len(ps) |-> ps[n]]

\* build_params_history: an entry is a list of tensors.  A copy keeps the values
\* it was made with; the tensors themselves, had they been appended, would show
\* whatever the optimizer has written into them since.
\* line 106: self.build_params_history = [copy.deepcopy(self.params)].
SeedHistory(ps) == <<[live |-> FALSE, val |-> deepcopy(ps)]>>

\* The tensors themselves appended, neither detached nor copied.
NoteKeeping_Shared(ps) == [live |-> TRUE, val |-> ps]

\* lines 115-116 and 155-156: [copy.deepcopy(p.detach().cpu()) for p in to_optim].
NoteKeeping(ps) == [live |-> FALSE, val |-> deepcopy(ps)]

\* What entry j of the history h reads as, the live tensors being ps.
HistoryAt(h, j, ps) == IF h[j].live THEN ps ELSE h[j].val

\* self.opt.step(): every registered tensor moves, in place.
opt_step(ps) == [n \in 1..Len(ps) |-> ps[n] + 1]


\* ------------------------------------------------------- the energy oracle
\* OpenMMEnergyH.apply is external.  It answers from a script the environment
\* chose; past the end of the script the last value is held.
\* The loss values tried: their differences are below (1), at (2) and above (3)
\* epsilon.
LossVals == {0, 1, 3}
Scripts == UNION {[1..n -> LossVals] : n \in 1..MaxScript}
OracleLoss(script, cur) == script[IF cur < Len(script) THEN cur + 1 ELSE Len(script)]
OracleNext(script, cur) == IF cur < Len(script) THEN cur + 1 ELSE cur

\* ------------------------------------------------------ the loops' range
\* The range one short.
InRange_Short(i, n) == i + 1 < n

\* lines 113 and 153: for i in range(steps), i iterations being done.
InRange(i, n) == i < n

\* ------------------------------------------------ early stopping, 171-180
Abs(x) == IF x < 0 THEN -x ELSE x


\* line 176: elif counter > patience.
StopsEarly(cnt) == cnt > patience

\* The increment made whatever the counter.
CounterAfter_Unguarded(cnt) == cnt + 1

\* lines 179-180: elif counter < patience: counter += 1.
CounterAfter(cnt) == IF cnt < patience THEN cnt + 1 ELSE cnt

\* A slip of the comparison's direction.
Improves_Higher(loss, best) ==
    IsNone(best) \/ (loss > Val(best) /\ Abs(Val(best) - loss) > epsilon)

\* The tolerance forgotten.
Improves_NoTolerance(loss, best) ==
    IsNone(best) \/ loss < Val(best)

\* line 171-172: the first loss, or one lower than best_loss by more than epsilon.
Improves(loss, best) ==
    IsNone(best) \/ (loss < Val(best) /\ Abs(Val(best) - loss) > epsilon)

\* The snapshot taken of the tensors as the coming optimizer step leaves them.
Snapshot_AfterStep(ps) == deepcopy(opt_step(ps))

\* line 174: best_params_so_far = copy.deepcopy(to_optim).
Snapshot(ps) == deepcopy(ps)

\* The loss put at the front of the list.
AppendLoss_Front(ls, loss) == <<loss>> \o ls

\* line 181: self.losses.append(lossnp).
AppendLoss(ls, loss) == Append(ls, loss)

\* ------------------------------------------------------------------ state
VARIABLES
    pc,                     \* where optimize() is
    err,                    \* the exception that ended optimize(), or "none"
    opt, steps,             \* optimize()'s arguments
    keys_to_optimize,       \* self.keys_to_optimize
    build_params,           \* self.build_params
    starting_build_params,  \* self._starting_build_params
    params,                 \* self.params (to_optim): the tensors' values
    build_params_history,   \* self.build_params_history
    losses,                 \* self.losses
    it,                     \* loop iterations completed
    best_loss, best_params_so_far, counter,
    lossnp,                 \* the last loss evaluated in this call, or None
    ncl,                    \* closure invocations in the current LBFGS step
    protein,                \* hcoords, _last_loss, times _initialize_openmm ran
    script, cursor,         \* the oracle's script and how far it is consumed
    observed,               \* history: the losses evaluated in this call
    const_run,              \* history: evaluations since the loss last changed
    best_built,             \* history: hcoords when best_loss was last set
    calls                   \* history: the calls of optimize() entered so far

VARIABLES
    lpc,                \* where openmm_loss is
    model_input,        \* the batch
    loss_args,          \* openmm_loss's keyword arguments
    scn_proteins,       \* the proteins kept, as indices into the batch
    seen,               \* proteins of scn_proteins handled by the loop
    total_energy, total_energy_raw,
    oracle_calls        \* history: the proteins passed to OpenMMEnergyH.apply

lossvars == <<lpc, model_input, loss_args, scn_proteins, seen, total_energy,
              total_energy_raw, oracle_calls>>

optvars == <<pc, err, opt, steps, keys_to_optimize, build_params,
             starting_build_params, params, build_params_history, losses, it,
             best_loss, best_params_so_far, counter, lossnp, ncl, protein,
             script, cursor, observed, const_run, best_built, calls>>

vars == <<optvars, lossvars>>

\* The step budgets tried: the short ones, and one longer than patience.
LongSteps == patience + ExtraSteps
StepBudgets(o) == (0..MaxShortSteps) \cup (IF o \in FirstOrder THEN {LongSteps} ELSE {})

\* __init__, lines 22-55, with prepare_protein, lines 62-70.
InitOptimizer ==
    \E t \in Tables, b1 \in BOOLEAN, b2 \in BOOLEAN, b3 \in BOOLEAN, sc \in Scripts :
        LET keys == KeysFrom(b1, b2, b3)
            bp == WithRawAngles(DefaultTable(t), keys)
        IN  /\ keys_to_optimize = keys
            /\ starting_build_params = DefaultTable(t)
            /\ protein = prepare_protein(NewProtein, DefaultTable(t))
            /\ params = ParamValues(bp, <<>>, keys)
            /\ build_params = ShareWithParams(bp, keys)
            /\ losses = <<>>
            /\ build_params_history = <<>>
            /\ script = sc
            /\ cursor = 0
            /\ pc = "idle" /\ err = "none" /\ opt = "none" /\ steps = 0
            /\ it = 0 /\ best_loss = NoneV /\ best_params_so_far = NoneV
            /\ counter = 0 /\ lossnp = NoneV /\ ncl = 0
            /\ observed = {} /\ const_run = 0 /\ best_built = NoneV
            /\ calls = 0

\* optimize(), lines 101-112 and 136-152: up to the loop.  torch's optimizers
\* reject an empty parameter list, so optimize() is called with keys selected.
optimize_enter ==
    /\ pc = "idle"
    /\ Len(params) > 0
    /\ \E o \in Strategies : \E s \in StepBudgets(o) :
        /\ opt' = o
        /\ steps' = s
    /\ build_params_history' = SeedHistory(params)
    /\ it' = 0
    /\ best_loss' = NoneV /\ best_params_so_far' = NoneV /\ counter' = 0
    /\ calls' = 1
    /\ pc' = "loop"
    /\ UNCHANGED <<err, keys_to_optimize, build_params, starting_build_params,
                   params, losses, lossnp, ncl, protein, script, cursor,
                   observed, const_run, best_built, lossvars>>

\* optimize() called again on the object after a call that returned, lines
\* 101-112 and 136-152: self.params, self.build_params, self.losses and the
\* protein are what the first call left; the history is assigned anew and the
\* loop's locals (best_loss, best_params_so_far, counter, lossnp) are fresh.
optimize_again ==
    /\ pc = "done" /\ calls = 1
    /\ \E o \in Strategies : \E s \in 0..MaxShortSteps :
        /\ opt' = o
        /\ steps' = s
    /\ build_params_history' = SeedHistory(params)
    /\ it' = 0
    /\ best_loss' = NoneV /\ best_params_so_far' = NoneV /\ counter' = 0
    /\ lossnp' = NoneV /\ observed' = {} /\ const_run' = 0
    /\ calls' = 2
    /\ pc' = "loop"
    /\ UNCHANGED <<err, keys_to_optimize, build_params, starting_build_params,
                   params, losses, ncl, protein, script, cursor, best_built,
                   lossvars>>

\* The SGD loop, lines 153-165: note keeping, zero_grad, scatter, rebuild.
sgd_rebuild ==
    /\ pc = "loop" /\ opt \in FirstOrder /\ InRange(it, steps)
    /\ build_params_history' = Append(build_params_history, NoteKeeping(params))
    /\ build_params' = update_complete_build_params_with_optimized_params(
                            build_params, params, TRUE, keys_to_optimize)
    /\ protein' = Rebuild(protein, build_params', params)
    /\ pc' = "built"
    /\ UNCHANGED <<err, opt, steps, keys_to_optimize, starting_build_params, params,
                   losses, it, best_loss, best_params_so_far, counter, lossnp, ncl,
                   script, cursor, observed, const_run, best_built, calls, lossvars>>

\* The SGD loop, lines 168-180: the energy, and the early-stopping bookkeeping.
sgd_evaluate ==
    /\ pc = "built" /\ opt \in FirstOrder
    /\ LET loss == OracleLoss(script, cursor)
       IN  /\ lossnp' = Some(loss)
           /\ cursor' = OracleNext(script, cursor)
           /\ observed' = observed \cup {loss}
           /\ const_run' = IF lossnp = Some(loss) THEN const_run + 1 ELSE 1
           /\ IF Improves(loss, best_loss)
              THEN /\ best_loss' = Some(loss)
                   /\ best_params_so_far' = Some(Snapshot(params))
                   /\ best_built' = Some(protein.hcoords)
                   /\ counter' = 0
                   /\ pc' = "evaluated"
              ELSE IF StopsEarly(counter)
              THEN /\ pc' = "after_loop"
                   /\ UNCHANGED <<best_loss, best_params_so_far, best_built, counter>>
              ELSE /\ counter' = CounterAfter(counter)
                   /\ pc' = "evaluated"
                   /\ UNCHANGED <<best_loss, best_params_so_far, best_built>>
    /\ UNCHANGED <<err, opt, steps, keys_to_optimize, build_params,
                   starting_build_params, params, build_params_history, losses, it,
                   ncl, protein, script, calls, lossvars>>

\* The SGD loop, lines 181-185: record the loss, step the optimizer.
sgd_step ==
    /\ pc = "evaluated" /\ opt \in FirstOrder
    /\ losses' = AppendLoss(losses, Val(lossnp))
    /\ params' = opt_step(params)
    /\ it' = it + 1
    /\ pc' = "loop"
    /\ UNCHANGED <<err, opt, steps, keys_to_optimize, build_params,
                   starting_build_params, build_params_history, best_loss,
                   best_params_so_far, counter, lossnp, ncl, protein, script, cursor,
                   observed, const_run, best_built, calls, lossvars>>


\* The LBFGS loop, lines 113-116: note keeping, then self.opt.step(closure) begins.
lbfgs_begin_step ==
    /\ pc = "loop" /\ opt = "LBFGS" /\ InRange(it, steps)
    /\ build_params_history' = Append(build_params_history, NoteKeeping(params))
    /\ ncl' = 0
    /\ pc' = "in_step"
    /\ UNCHANGED <<err, opt, steps, keys_to_optimize, build_params,
                   starting_build_params, params, losses, it, best_loss,
                   best_params_so_far, counter, lossnp, protein, script, cursor,
                   observed, const_run, best_built, calls, lossvars>>

\* closure(), lines 118-130, as torch's LBFGS calls it: first on entering the
\* step, then again after each move of its inner iteration.
closure ==
    /\ pc \in {"in_step", "moved"} /\ opt = "LBFGS" /\ ncl < MaxClosure
    /\ build_params' = update_complete_build_params_with_optimized_params(
                            build_params, params, TRUE, keys_to_optimize)
    /\ protein' = [Rebuild(protein, build_params', params) EXCEPT
                      !.last_loss = Some(OracleLoss(script, cursor))]
    /\ cursor' = OracleNext(script, cursor)
    /\ ncl' = ncl + 1
    /\ pc' = "closed"
    /\ UNCHANGED <<err, opt, steps, keys_to_optimize, starting_build_params, params,
                   build_params_history, losses, it, best_loss, best_params_so_far,
                   counter, lossnp, script, observed, const_run, best_built, calls, lossvars>>

\* Inside self.opt.step(closure), line 132: LBFGS moves the tensors.
lbfgs_move ==
    /\ pc = "closed" /\ opt = "LBFGS"
    /\ params' = opt_step(params)
    /\ pc' = "moved"
    /\ UNCHANGED <<err, opt, steps, keys_to_optimize, build_params,
                   starting_build_params, build_params_history, losses, it, best_loss,
                   best_params_so_far, counter, lossnp, ncl, protein, script, cursor,
                   observed, const_run, best_built, calls, lossvars>>

\* self.opt.step(closure) returns, lines 132-133.
lbfgs_step_done ==
    /\ pc \in {"closed", "moved"} /\ opt = "LBFGS"
    /\ it' = it + 1
    /\ pc' = "loop"
    /\ UNCHANGED <<err, opt, steps, keys_to_optimize, build_params,
                   starting_build_params, params, build_params_history, losses,
                   best_loss, best_params_so_far, counter, lossnp, ncl, protein,
                   script, cursor, observed, const_run, best_built, calls, lossvars>>

\* What line 195 meets: best_params_so_far is assigned only in the SGD branch
\* (lines 149, 174), so it is unbound after the LBFGS loop and None when the
\* SGD loop ran no iteration.
FinishError(o, best, keys) ==
    IF o = "LBFGS" THEN "UnboundLocalError"
    ELSE IF IsNone(best) /\ Len(keys) > 0 THEN "TypeError"
    ELSE "none"

\* After the loop, lines 187-196: the plot, the final scatter, the return.
finish ==
    /\ \/ pc = "loop" /\ ~InRange(it, steps)
       \/ pc = "after_loop"
    /\ err' = FinishError(opt, best_params_so_far, keys_to_optimize)
    /\ IF err' = "none"
       THEN /\ build_params' = update_complete_build_params_with_optimized_params(
                       build_params, Val(best_params_so_far), FALSE, keys_to_optimize)
            /\ pc' = "done"
       ELSE /\ pc' = "error"
            /\ UNCHANGED build_params
    /\ UNCHANGED <<opt, steps, keys_to_optimize, starting_build_params, params,
                   build_params_history, losses, it, best_loss, best_params_so_far,
                   counter, lossnp, ncl, protein, script, cursor, observed,
                   const_run, best_built, calls, lossvars>>


Next ==
    \/ optimize_enter
    \/ sgd_rebuild
    \/ sgd_evaluate
    \/ sgd_step
    \/ lbfgs_begin_step
    \/ closure
    \/ lbfgs_move
    \/ lbfgs_step_done
    \/ finish

\* The same with a second call of optimize().
NextTwoCalls ==
    \/ optimize_enter
    \/ optimize_again
    \/ sgd_rebuild
    \/ sgd_evaluate
    \/ sgd_step
    \/ lbfgs_begin_step
    \/ closure
    \/ lbfgs_move
    \/ lbfgs_step_done
    \/ finish

\* ------------------------------------------------------------ openmm_loss
\* Energies are two-limb fixed-point numbers m * 1e-3 + r * 1e-15: the high limb
\* carries the energy, the low limb what the factor 10**-12 of line 77 leaves.
MaxBatch == 2           \* a batch holds 0..MaxBatch proteins

Num(m, r) == [m |-> m, r |-> r]
Zero == Num(0, 0)
Plus(x, y) == Num(x.m + y.m, x.r + y.r)
\* x / n, rounded down.
DivBy(x, n) == Num(x.m \div n, x.r \div n)
\* x * 10**-12: the high limb moves to the low limb.
TimesPico(x) == Num(0, x.m)

\* exp(x) for x in thousandths, in thousandths: the Taylor series for x >= 0,
\* the reciprocal for x < 0.
RECURSIVE ExpSeries(_, _, _, _)
ExpSeries(x, k, term, acc) ==
    IF k > 14 \/ term = 0 THEN acc
    ELSE ExpSeries(x, k + 1, (term * x) \div (1000 * k), acc + (term * x) \div (1000 * k))
Exp(x) == IF x >= 0 THEN ExpSeries(x, 1, 1000, 1000)
          ELSE 1000000 \div ExpSeries(-x, 1, 1000, 1000)

\* line 80: (1/a + exp(-(d*E+b)/c))**(-1) - (a-1).
ModifiedSigmoid(x, ps) ==
    LET a == ps[1]
        b == ps[2]
        c == ps[3]
        d == ps[4]
        u == (0 - (d * x.m + 1000 * b)) \div c
    IN  Num(1000000 \div ((1000 \div a) + Exp(u)) - 1000 * (a - 1), 0)

\* The oracle's answers, the protein lengths and the sigmoid parameters tried.
Energies == {-2, 1, 3}
Lens == {1, 2}
SigmoidParamSets == {<<1, 1, 1, 1>>, <<2, 1, 2, 1>>}
Proteins == [hasX : BOOLEAN, len : Lens, energy : Energies]
Batches == UNION {[1..n -> Proteins] : n \in 0..MaxBatch}
LossArgs == [scale_by_length : BOOLEAN, modified_sigmoid : BOOLEAN,
             add_relu : BOOLEAN, modified_sigmoid_params : SigmoidParamSets]

\* The test for "X" inverted.
generate_Inverted(batch) ==
    [n \in 1..Len(batch) |-> IF batch[n].hasX THEN n ELSE 0]

\* generate_scnproteins_from_model_reps, lines 127-155: one item per batch
\* entry, None (0 here) for a sequence holding "X", else the protein (its index).
generate_scnproteins_from_model_reps(batch) ==
    [n \in 1..Len(batch) |-> IF batch[n].hasX THEN 0 ELSE n]

\* lines 51-52: [p for p in ... if p is not None].
RECURSIVE NotNone(_)
NotNone(items) ==
    IF items = <<>> THEN <<>>
    ELSE (IF Head(items) # 0 THEN <<Head(items)>> ELSE <<>>) \o NotNone(Tail(items))

\* The regularization term taken after the squashing instead of before it.
ProteinLoss_ReluAfterSquash(energy, len, args) ==
    LET protein_energy == Num(1000 * energy, 0)
        scaled == IF args.scale_by_length THEN DivBy(protein_energy, len)
                  ELSE protein_energy
        squashed == IF args.modified_sigmoid
                    THEN ModifiedSigmoid(scaled, args.modified_sigmoid_params)
                    ELSE scaled
    IN  IF args.add_relu THEN Plus(squashed, TimesPico(squashed)) ELSE squashed

\* lines 68-82: one protein's loss from the oracle's energy.
ProteinLoss(energy, len, args) ==
    LET protein_energy == Num(1000 * energy, 0)
        scaled == IF args.scale_by_length THEN DivBy(protein_energy, len)
                  ELSE protein_energy
        relu_component == IF args.add_relu THEN TimesPico(scaled) ELSE Zero
        squashed == IF args.modified_sigmoid
                    THEN ModifiedSigmoid(scaled, args.modified_sigmoid_params)
                    ELSE scaled
    IN  IF args.add_relu THEN Plus(squashed, relu_component) ELSE squashed

\* lines 72-73: protein_energy_raw = protein_energy.clone(), taken before the
\* in-place division of line 75.
ProteinRaw(energy, len, args) == Num(1000 * energy, 0)


LossUnused ==
    /\ lpc = "unused" /\ model_input = <<>> /\ scn_proteins = <<>> /\ seen = 0
    /\ loss_args = [scale_by_length |-> FALSE, modified_sigmoid |-> FALSE,
                    add_relu |-> FALSE, modified_sigmoid_params |-> <<1, 1, 1, 1>>]
    /\ total_energy = Zero /\ total_energy_raw = Zero /\ oracle_calls = <<>>

OptimizerUnused ==
    /\ pc = "unused" /\ err = "none" /\ opt = "none" /\ steps = 0
    /\ keys_to_optimize = <<>> /\ build_params = DefaultTable(0)
    /\ starting_build_params = DefaultTable(0) /\ params = <<>>
    /\ build_params_history = <<>> /\ losses = <<>> /\ it = 0
    /\ best_loss = NoneV /\ best_params_so_far = NoneV /\ counter = 0
    /\ lossnp = NoneV /\ ncl = 0
    /\ protein = [hcoords |-> fastbuild(DefaultTable(0), <<>>), last_loss |-> NoneV,
                  openmm_inits |-> 0]
    /\ script = <<0>> /\ cursor = 0 /\ observed = {} /\ const_run = 0
    /\ best_built = NoneV /\ calls = 0

\* openmm_loss is called: its arguments.
InitLoss ==
    /\ OptimizerUnused
    /\ model_input \in Batches
    /\ loss_args \in LossArgs
    /\ lpc = "called" /\ scn_proteins = <<>> /\ seen = 0
    /\ total_energy = Zero /\ total_energy_raw = Zero /\ oracle_calls = <<>>

\* lines 46-63: the proteins are generated and filtered, the totals start at 0.
loss_generate ==
    /\ lpc = "called"
    /\ scn_proteins' = NotNone(generate_scnproteins_from_model_reps(model_input))
    /\ seen' = 0 /\ total_energy' = Zero /\ total_energy_raw' = Zero
    /\ lpc' = "loop"
    /\ UNCHANGED <<model_input, loss_args, oracle_calls, optvars>>

\* lines 64-84: one iteration of the loop over scn_proteins.
loss_protein ==
    /\ lpc = "loop" /\ seen < Len(scn_proteins)
    /\ seen' = seen + 1
    /\ LET p == model_input[scn_proteins[seen + 1]]
       IN  IF p.hasX
           THEN UNCHANGED <<total_energy, total_energy_raw, oracle_calls>>
           ELSE /\ oracle_calls' = Append(oracle_calls, scn_proteins[seen + 1])
                /\ total_energy_raw' =
                       Plus(total_energy_raw, ProteinRaw(p.energy, p.len, loss_args))
                /\ total_energy' =
                       Plus(total_energy, ProteinLoss(p.energy, p.len, loss_args))
    /\ UNCHANGED <<lpc, model_input, loss_args, scn_proteins, optvars>>

\* line 86: return.
loss_return ==
    /\ lpc = "loop" /\ seen = Len(scn_proteins)
    /\ lpc' = "returned"
    /\ UNCHANGED <<model_input, loss_args, scn_proteins, seen, total_energy,
                   total_energy_raw, oracle_calls, optvars>>

NextLoss ==
    \/ loss_generate
    \/ loss_protein
    \/ loss_return

\* --------------------------------------------------------- specifications
Init == InitOptimizer /\ LossUnused
Spec == Init /\ [][Next]_vars

SpecTwoCalls == Init /\ [][NextTwoCalls]_vars

SpecLoss == InitLoss /\ [][NextLoss]_vars


\* ------------------------------------------------------------------ claims
Min(S) == CHOOSE x \in S : \A y \in S : x <= y
InFirstOrder == opt \in FirstOrder
Slots == create_param_list_from_build_params(keys_to_optimize)

\* C1: a loss held constant stops the first-order loop: no iteration goes on to
\* its optimizer step once the loss has been the same for more than patience + 2
\* evaluations in a row (the claim's patience + 1, and one more for either
\* reading of "within").
C1_StopsOnPlateau ==
    (InFirstOrder /\ pc = "evaluated") => const_run <= patience + 2

\* C2: optimize() never ends in an exception, whatever the strategy and the
\* way the loop ended (stated for the step budgets that run the loop at least
\* once; a budget of 0 fails as well, in FinishError's second case).
C2_OptimizeReturns == steps > 0 => pc # "error"

\* C3, as claimed: best_loss is the minimum of the losses evaluated so far.
C3_BestLossIsMinimum ==
    (InFirstOrder /\ observed # {}) => best_loss = Some(Min(observed))

\* C3, amended: best_loss is one of the losses evaluated so far, and it is above
\* their minimum by at most epsilon.
C3_BestLossNearMinimum ==
    (InFirstOrder /\ observed # {}) =>
        /\ ~IsNone(best_loss)
        /\ Val(best_loss) \in observed
        /\ Min(observed) <= Val(best_loss)
        /\ Val(best_loss) <= Min(observed) + epsilon

\* A run that ended with best_loss above the minimum evaluated, by epsilon.
C3_Witness ==
    /\ InFirstOrder /\ pc = "done"
    /\ Val(best_loss) = Min(observed) + epsilon

\* C4: in the first-order loop best_loss changes only in the first iteration or
\* in one whose loss is below best_loss by more than epsilon; in exactly those
\* the counter becomes 0 and the snapshot is taken anew; best_loss never rises.
C4_BestLossChangesOnlyOnImprovement ==
    [][InFirstOrder =>
        IF pc = "built"
        THEN LET loss == Val(lossnp')
                 better == IsNone(best_loss) \/ loss < Val(best_loss) - epsilon
             IN  /\ IsNone(best_loss) <=> it = 0
                 /\ better => /\ best_loss' = Some(loss)
                              /\ counter' = 0
                              /\ best_params_so_far' = Some(params)
                 /\ ~better => /\ best_loss' = best_loss
                               /\ best_params_so_far' = best_params_so_far
                               /\ counter' > 0
                 /\ ~IsNone(best_loss) => Val(best_loss') <= Val(best_loss)
        ELSE /\ best_loss' = best_loss
             /\ best_params_so_far' = best_params_so_far
             /\ counter' = counter]_vars

\* An iteration after the first has just lowered best_loss.
C4_Witness ==
    /\ InFirstOrder /\ pc = "evaluated" /\ it >= 1 /\ counter = 0
    /\ Val(best_loss) = Val(lossnp)

\* The store's cells of a selected key agree with the parameter list ps: the bond
\* lengths are its entries, the sin/cos pairs are those of its entries.
BuiltFrom(coords, ps) ==
    \A n \in 1..Len(Slots) :
        LET root_atom == Slots[n][1]
            param_key == Slots[n][2]
        IN  /\ param_key = "bond_lengths" => coords[root_atom].bond_lengths = ps[n]
            /\ param_key = "thetas" => /\ coords[root_atom].sthetas = Sin(ps[n])
                                       /\ coords[root_atom].cthetas = Cos(ps[n])
            /\ param_key = "chis" => /\ coords[root_atom].schis = Sin(ps[n])
                                     /\ coords[root_atom].cchis = Cos(ps[n])

\* C5: the checkpoint holds the values the structure was rebuilt from in the
\* iteration that set best_loss, and the store optimize() returns holds the
\* bond lengths and sin/cos pairs of that checkpoint.
C5_CheckpointIsBestIterate ==
    (InFirstOrder /\ ~IsNone(best_loss)) =>
        /\ ~IsNone(best_params_so_far)
        /\ BuiltFrom(Val(best_built), Val(best_params_so_far))
        /\ pc = "done" =>
            /\ BuiltFrom(fastbuild(build_params, params), Val(best_params_so_far))
            /\ fastbuild(build_params, params) = Val(best_built)

\* optimize() returned a checkpoint that is neither the first, nor the last
\* iteration's parameters, nor the last iterate.
C5_Witness ==
    /\ InFirstOrder /\ pc = "done" /\ it >= 3
    /\ Val(best_params_so_far) # params
    /\ Val(best_params_so_far) # HistoryAt(build_params_history, 2, params)
    /\ Val(best_params_so_far) #
            HistoryAt(build_params_history, Len(build_params_history), params)

\* C10: self.losses holds one value per completed first-order iteration, in
\* iteration order; it grows only by the append that goes with an optimizer
\* step; LBFGS leaves it empty.
C10_LossesInv ==
    /\ opt = "LBFGS" => losses = <<>>
    /\ InFirstOrder =>
        /\ Len(losses) = it
        /\ \A j \in 1..Len(losses) : losses[j] = OracleLoss(script, j - 1)
    /\ pc = "after_loop" => Len(losses) = it

C10_LossHistory ==
    /\ []C10_LossesInv
    /\ [][losses' # losses =>
            /\ InFirstOrder /\ pc = "evaluated"
            /\ losses' = Append(losses, Val(lossnp))
            /\ it' = it + 1
            /\ params' = opt_step(params)]_vars
    /\ [][(InFirstOrder /\ params' # params) => Len(losses') = Len(losses) + 1]_vars

\* A first-order run ended with several losses recorded, not all the same.
C10_Witness ==
    /\ InFirstOrder /\ pc = "done" /\ Len(losses) >= 3
    /\ losses[1] # losses[2]


\* C6: scattering the extracted list back leaves every selected bond length as
\* it was and stores (sin, cos) of every selected angle, from which atan2 gives
\* the angle back modulo a full turn; the list has 3 * |K| entries, and
\* extraction and scatter pair its positions with the same (anchor, key).
C6_RoundTrip ==
    /\ [](Len(params) = 3 * Len(keys_to_optimize) /\ Len(Slots) = Len(params))
    /\ [][(pc \in {"loop", "in_step", "moved"} /\ pc' \in {"built", "closed"}) =>
        /\ Len(params) = 3 * Len(keys_to_optimize)
        /\ ParamValues(build_params, params, keys_to_optimize) = params
        /\ \A root_atom \in AnchorSet : \A param_key \in KeySet(keys_to_optimize) :
            LET old == build_params[root_atom]
                new == build_params'[root_atom]
            IN  /\ param_key = "bond_lengths" =>
                      Deref(new.bond_lengths, params') = Deref(old.bond_lengths, params)
                /\ param_key = "thetas" =>
                      /\ new.sthetas = Own(Sin(Deref(old.thetas, params)))
                      /\ new.cthetas = Own(Cos(Deref(old.thetas, params)))
                      /\ Atan2(new.sthetas.val, new.cthetas.val) % 4
                            = Deref(old.thetas, params) % 4
                /\ param_key = "chis" =>
                      /\ new.schis = Own(Sin(Deref(old.chis, params)))
                      /\ new.cchis = Own(Cos(Deref(old.chis, params)))
                      /\ Atan2(new.schis.val, new.cchis.val) % 4
                            = Deref(old.chis, params) % 4]_vars

\* The list of all three keys was scattered with an angle past a half turn in it.
C6_Witness ==
    /\ pc = "built" /\ Len(keys_to_optimize) = 3
    /\ \E n \in 1..Len(params) : Slots[n][2] = "thetas" /\ params[n] > 2

\* C7: the store's entries of a key that is not selected stay what they were at
\* construction, and no entry of the extracted list comes from such a key.
C7_FrozenFields ==
    /\ \A n \in 1..Len(Slots) : Slots[n][2] \in KeySet(keys_to_optimize)
    /\ \A root_atom \in AnchorSet :
        LET now == build_params[root_atom]
            start == starting_build_params[root_atom]
        IN  /\ "bond_lengths" \notin KeySet(keys_to_optimize) =>
                  now.bond_lengths = start.bond_lengths
            /\ "thetas" \notin KeySet(keys_to_optimize) =>
                  /\ now.sthetas = start.sthetas
                  /\ now.cthetas = start.cthetas
                  /\ now.thetas = Absent
            /\ "chis" \notin KeySet(keys_to_optimize) =>
                  /\ now.schis = start.schis
                  /\ now.cchis = start.cchis
                  /\ now.chis = Absent

\* optimize() returned after several iterations with chis selected and thetas
\* frozen, the selected entries changed.
C7_Witness ==
    /\ InFirstOrder /\ pc = "done" /\ it >= 2
    /\ "chis" \in KeySet(keys_to_optimize)
    /\ "thetas" \notin KeySet(keys_to_optimize)
    /\ \E root_atom \in AnchorSet :
        build_params[root_atom].schis # starting_build_params[root_atom].schis


\* The proteins of the batch without "X", in batch order.
RECURSIVE XFree(_, _)
XFree(batch, n) ==
    IF n = 0 THEN <<>>
    ELSE XFree(batch, n - 1) \o (IF batch[n].hasX THEN <<>> ELSE <<n>>)

RECURSIVE SumLoss(_, _, _)
SumLoss(batch, idx, args) ==
    IF idx = <<>> THEN Zero
    ELSE Plus(ProteinLoss(batch[Head(idx)].energy, batch[Head(idx)].len, args),
              SumLoss(batch, Tail(idx), args))

RECURSIVE SumEnergy(_, _)
SumEnergy(batch, idx) ==
    IF idx = <<>> THEN 0 ELSE batch[Head(idx)].energy + SumEnergy(batch, Tail(idx))

\* C8: openmm_loss returns totals that are the sums over exactly the proteins
\* without "X"; a protein with "X" adds nothing and is not given to the oracle.
C8_SkipsUnknownResidues ==
    /\ \A j \in 1..Len(oracle_calls) : ~model_input[oracle_calls[j]].hasX
    /\ lpc = "returned" =>
        /\ oracle_calls = XFree(model_input, Len(model_input))
        /\ total_energy = SumLoss(model_input, XFree(model_input, Len(model_input)), loss_args)
        /\ total_energy_raw = Num(1000 * SumEnergy(model_input, XFree(model_input, Len(model_input))), 0)

\* openmm_loss returned for a batch with a protein with "X" between two without.
C8_Witness ==
    /\ lpc = "returned" /\ Len(model_input) >= 2 /\ Len(oracle_calls) >= 1
    /\ \E n \in 1..Len(model_input) : model_input[n].hasX
    /\ \E n \in 1..Len(model_input) : ~model_input[n].hasX /\ model_input[n].energy # 0

\* The loss of one protein as the claim orders the transforms.
Claimed(energy, len, args) ==
    LET raw == Num(1000 * energy, 0)
        step1 == IF args.scale_by_length THEN DivBy(raw, len) ELSE raw
        step2 == IF args.modified_sigmoid
                 THEN ModifiedSigmoid(step1, args.modified_sigmoid_params) ELSE step1
        step3 == IF args.add_relu THEN Plus(step2, TimesPico(step1)) ELSE step2
    IN  step3

RECURSIVE SumClaimed(_, _, _)
SumClaimed(batch, idx, args) ==
    IF idx = <<>> THEN Zero
    ELSE Plus(Claimed(batch[Head(idx)].energy, batch[Head(idx)].len, args),
              SumClaimed(batch, Tail(idx), args))

\* C9: each evaluated protein adds its energy, divided by its length if asked,
\* then squashed if asked, then increased by 10**-12 times the energy before
\* squashing if asked; the raw total is the sum of the oracle's energies.
C9_TransformOrder ==
    /\ total_energy = SumClaimed(model_input, oracle_calls, loss_args)
    /\ total_energy_raw = Num(1000 * SumEnergy(model_input, oracle_calls), 0)

\* openmm_loss returned with the three transforms on, for a protein of length 2
\* whose regularization term differs before and after the squashing.
C9_Witness ==
    /\ lpc = "returned"
    /\ loss_args.scale_by_length /\ loss_args.modified_sigmoid /\ loss_args.add_relu
    /\ \E j \in 1..Len(oracle_calls) :
        LET p == model_input[oracle_calls[j]]
        IN  /\ p.len = 2
            /\ DivBy(Num(1000 * p.energy, 0), 2)
                 # ModifiedSigmoid(DivBy(Num(1000 * p.energy, 0), 2),
                                   loss_args.modified_sigmoid_params)
    /\ total_energy # total_energy_raw


\* C11, as claimed: no optimizer step is left without a rebuild after it, the
\* last one before optimize() returns included: the coordinates optimize()
\* leaves in the protein are rebuilt from the tensors as the last step left
\* them, or from the store it returns.
C11_EveryStepRebuilt ==
    pc = "done" =>
        \/ BuiltFrom(protein.hcoords, params)
        \/ protein.hcoords = fastbuild(build_params, params)

\* C11, amended: every energy evaluation (line 168 from pc = "built", line 126
\* inside closure) is on coordinates rebuilt from the store just scattered from
\* the tensors as they are then, so an optimizer step that is followed by an
\* evaluation is followed by a rebuild first; the last step of the call is
\* followed by none, and neither is the final scatter of line 195.
C11_RebuiltBeforeEvaluation ==
    /\ [](pc = "built" =>
            /\ protein.hcoords = fastbuild(build_params, params)
            /\ BuiltFrom(protein.hcoords, params))
    /\ [][pc' = "closed" =>
            /\ protein'.hcoords = fastbuild(build_params', params')
            /\ BuiltFrom(protein'.hcoords, params')
            /\ protein'.last_loss = Some(OracleLoss(script, cursor))]_vars
    /\ [][params' # params => protein' = protein]_vars
    /\ [][pc' \in {"done", "error"} => protein' = protein]_vars

\* optimize() returned with the protein's coordinates one step behind the
\* tensors and different from what the returned store builds.
C11_Witness ==
    /\ InFirstOrder /\ pc = "done" /\ it >= 2
    /\ ~BuiltFrom(protein.hcoords, params)
    /\ BuiltFrom(protein.hcoords,
                 HistoryAt(build_params_history, Len(build_params_history), params))
    /\ protein.hcoords # fastbuild(build_params, params)


\* The history as it reads, the live tensors being ps.
HistoryView(h, ps) == [j \in 1..Len(h) |-> HistoryAt(h, j, ps)]
InIteration == pc \in {"built", "evaluated", "after_loop", "in_step", "closed", "moved"}

\* C12: optimize() seeds build_params_history with one snapshot of the parameters
\* it starts from and every iteration appends one at its start; after k
\* iterations there are k + 1 entries; the entry an iteration appended holds the
\* values its optimizer step starts from (in the first-order loop: the initial
\* values moved by the steps before it); no step changes an entry already there.
C12_HistoryInv ==
    LET h == HistoryView(build_params_history, params)
    IN  pc # "idle" =>
            /\ Len(h) = it + 1 + (IF InIteration THEN 1 ELSE 0)
            /\ Len(h) >= 2 => h[2] = h[1]
            /\ pc \in {"built", "evaluated", "in_step"} => h[Len(h)] = params
            /\ InFirstOrder =>
                  \A j \in 2..Len(h) : h[j] = [n \in 1..Len(params) |-> h[1][n] + (j - 2)]

C12_ParameterHistory ==
    /\ []C12_HistoryInv
    /\ [][LET h == HistoryView(build_params_history, params)
              hnext == HistoryView(build_params_history', params')
          IN  \/ hnext = h
              \/ pc \in {"idle", "done"} /\ hnext = <<params>> /\ params' = params
              \/ pc = "loop" /\ hnext = Append(h, params) /\ params' = params]_vars

\* A first-order call returned after several iterations, its history holding
\* the seed and one entry per iteration, each later entry a step further.
C12_Witness ==
    LET h == HistoryView(build_params_history, params)
    IN  /\ InFirstOrder /\ pc = "done" /\ it >= 3
        /\ Len(h) = it + 1
        /\ h[3] # h[2] /\ h[4] # h[3]


\* The cell holds one of the tensors of self.params: line 77 made it require a
\* gradient and lines 112, 137-144 handed the list to the optimizer.
Registered(cell) == cell.ref > 0
AngleKeys == {"thetas", "chis"}
SinOf(param_key) == IF param_key = "thetas" THEN "sthetas" ELSE "schis"
CosOf(param_key) == IF param_key = "thetas" THEN "cthetas" ELSE "cchis"

\* C13, as claimed: while an angle key is optimized, its sin/cos pair is what
\* the optimizer holds and its raw angle is not.
C13_OnlySinCosRegistered ==
    pc # "idle" =>
        \A root_atom \in AnchorSet : \A param_key \in AngleKeys \cap KeySet(keys_to_optimize) :
            /\ ~Registered(build_params[root_atom][param_key])
            /\ Registered(build_params[root_atom][SinOf(param_key)])
            /\ Registered(build_params[root_atom][CosOf(param_key)])

\* C13, amended: while an angle key is optimized, its raw angle, made at
\* construction as atan2 of the stored pair, is the tensor the optimizer holds;
\* the sin/cos pair is never in the optimizer's list, and after each scatter it
\* is (sin, cos) of the raw angle.
C13_RawAngleRegistered ==
    /\ \A n \in 1..Len(Slots) : Slots[n][2] \in {"bond_lengths"} \cup AngleKeys
    /\ \A root_atom \in AnchorSet : \A param_key \in AngleKeys \cap KeySet(keys_to_optimize) :
        LET group == build_params[root_atom]
            start == starting_build_params[root_atom]
            angle == Deref(group[param_key], params)
        IN  /\ Registered(group[param_key])
            /\ Slots[group[param_key].ref] = <<root_atom, param_key>>
            /\ ~Registered(group[SinOf(param_key)])
            /\ ~Registered(group[CosOf(param_key)])
            /\ pc = "idle" =>
                  angle = Atan2(start[SinOf(param_key)].val, start[CosOf(param_key)].val)
            /\ pc \in {"built", "evaluated", "closed"} =>
                  /\ group[SinOf(param_key)].val = Sin(angle)
                  /\ group[CosOf(param_key)].val = Cos(angle)

\* Both angle keys are optimized, steps have been taken, and the store has just
\* been scattered from the raw angles.
C13_Witness ==
    /\ pc = "built" /\ it >= 1
    /\ AngleKeys \subseteq KeySet(keys_to_optimize)
    /\ Registered(build_params["CA"]["thetas"])
    /\ build_params["CA"]["sthetas"] # starting_build_params["CA"]["sthetas"]


\* C14: _initialize_openmm has run once, at construction, in every state; the
\* protein changes only in the loop's rebuild and in closure, and there only in
\* its coordinates and its last loss.
C14_InitializedOnce ==
    /\ [](protein.openmm_inits = 1)
    /\ [][protein' # protein =>
            /\ \/ InFirstOrder /\ pc = "loop" /\ pc' = "built"
               \/ opt = "LBFGS" /\ pc \in {"in_step", "moved"} /\ pc' = "closed"
            /\ protein'.openmm_inits = protein.openmm_inits
            /\ protein' = [protein EXCEPT !.hcoords = protein'.hcoords,
                                          !.last_loss = protein'.last_loss]]_vars

\* A closure has run again inside a later LBFGS step: the coordinates and the
\* last loss are new, the OpenMM context is the one made at construction.
C14_Witness ==
    /\ opt = "LBFGS" /\ pc = "closed" /\ it >= 1 /\ ncl = 2
    /\ protein.openmm_inits = 1
    /\ ~IsNone(protein.last_loss)
    /\ protein.hcoords # fastbuild(starting_build_params, <<>>)


\* C15: LBFGS keeps no best loss, no snapshot, no counter and no loss list, and
\* never stops early: its loop ends after exactly `steps` outer steps, each of at
\* least one closure invocation; every invocation scatters the tensors as they
\* are, rebuilds from the store just scattered and asks the oracle anew, leaving
\* the tensors alone.  (zero_grad and backward act on gradients, which the step
\* of the model stands for.)
C15_LBFGSInv ==
    opt = "LBFGS" =>
        /\ IsNone(best_loss) /\ IsNone(best_params_so_far) /\ IsNone(lossnp)
        /\ counter = 0 /\ losses = <<>>
        /\ pc # "after_loop"
        /\ it <= steps
        /\ pc \in {"error", "done"} => it = steps
        /\ pc \in {"closed", "moved"} => ncl >= 1

C15_LBFGSRunsAllSteps ==
    /\ []C15_LBFGSInv
    /\ [][(opt = "LBFGS" /\ it' # it) =>
            /\ it' = it + 1 /\ it < steps
            /\ ncl >= 1]_vars
    /\ [][(opt = "LBFGS" /\ pc' = "closed") =>
            /\ build_params' = update_complete_build_params_with_optimized_params(
                                    build_params, params, TRUE, keys_to_optimize)
            /\ protein'.hcoords = fastbuild(build_params', params)
            /\ protein'.last_loss = Some(OracleLoss(script, cursor))
            /\ cursor' = OracleNext(script, cursor)
            /\ ncl' = ncl + 1
            /\ params' = params]_vars

\* The LBFGS loop has run its whole budget of two steps, with a step in which
\* the closure ran twice and the oracle answered differently.
C15_Witness ==
    /\ opt = "LBFGS" /\ steps = 2 /\ it = steps /\ pc = "loop"
    /\ ncl = 2 /\ cursor = 2
    /\ script[1] # script[2]


\* C16: the patience counter stays between 0 and patience; an iteration raises
\* it by one at most, and only when its loss did not improve on best_loss and
\* the counter was below patience; nothing else raises it.
C16_CounterInv == 0 <= counter /\ counter <= patience

C16_CounterBounded ==
    /\ []C16_CounterInv
    /\ [][counter' > counter =>
            /\ InFirstOrder /\ pc = "built"
            /\ counter' = counter + 1
            /\ counter < patience
            /\ ~Improves(Val(lossnp'), best_loss)
            /\ best_loss' = best_loss]_vars
    /\ [][(InFirstOrder /\ pc = "built" /\ counter = patience) =>
            counter' \in {0, patience}]_vars

\* The counter is at patience and a further iteration without improvement has
\* left it there.
C16_Witness ==
    /\ InFirstOrder /\ pc = "evaluated"
    /\ counter = patience /\ const_run >= patience + 2


\* The last iterate: the values the last iteration started from, moved by its step.
LastIterate ==
    opt_step(HistoryAt(build_params_history, Len(build_params_history), params))

\* C17: what one call of optimize() leaves to the next.  When a first-order call
\* has returned, the store holds the best snapshot's values (in tensors of its
\* own) and self.params the last iterate.  A second call changes neither on
\* entry, keeps self.losses and starts the history anew from self.params; its
\* first scatter writes the last iterate over the store, so that what it builds
\* is no longer the best structure of the first call.  self.losses only grows.
C17_DoneInv ==
    (InFirstOrder /\ pc = "done") =>
        /\ BuiltFrom(fastbuild(build_params, params), Val(best_params_so_far))
        /\ params = LastIterate
        /\ \A root_atom \in AnchorSet : ~Registered(build_params[root_atom].bond_lengths)

C17_CarriedState ==
    /\ []C17_DoneInv
    /\ [][(pc = "done" /\ pc' = "loop") =>
            /\ calls = 1 /\ calls' = 2
            /\ params' = params /\ build_params' = build_params
            /\ losses' = losses /\ protein' = protein
            /\ fastbuild(build_params', params') = Val(best_built')
            /\ HistoryView(build_params_history', params') = <<params>>]_vars
    /\ [][(calls = 2 /\ it = 0 /\ pc \in {"loop", "in_step"} /\ pc' \in {"built", "closed"}) =>
            /\ params' = HistoryAt(build_params_history, 1, params)
            /\ BuiltFrom(fastbuild(build_params', params'), params')
            /\ protein'.hcoords = fastbuild(build_params', params')
            /\ "bond_lengths" \in KeySet(keys_to_optimize) =>
                  protein'.hcoords # Val(best_built)]_vars
    /\ [][/\ Len(losses') >= Len(losses)
          /\ SubSeq(losses', 1, Len(losses)) = losses]_vars

\* The second call's first iteration has scattered the first call's last iterate
\* over the best values, the first call's losses still in self.losses.
C17_Witness ==
    /\ calls = 2 /\ InFirstOrder /\ pc = "built" /\ it = 0
    /\ Len(losses) = 2 /\ losses[1] # losses[2]
    /\ Len(build_params_history) = 2
    /\ BuiltFrom(fastbuild(build_params, params), params)
    /\ fastbuild(build_params, params) # Val(best_built)

=============================================================================
